---- MODULE Spec2Model ----
(***************************************************************************)
(* co_managed: a Manager spawns sub coroutines, keeps their join handles   *)
(* in a concurrent map (CoMap) keyed by an id, and cancels every entry of  *)
(* the map when it is dropped.  Each sub coroutine owns a SubCo whose drop *)
(* removes the entry and joins the handle.                                 *)
(*                                                                         *)
(* The parent (owner of the Manager) and every sub coroutine run on the    *)
(* scheduler's worker threads, so their steps interleave at the level of   *)
(* the calls into the map and into the scheduler.                          *)
(***************************************************************************)
EXTENDS Integers, Sequences, FiniteSets

\* ---------------------------------------------------------------- bounds
\* number of sub coroutines whose life is followed step by step
MaxChildren == 2
\* cap on the id counter (Manager.id): room for one run of MAX_LEN finished
\* sub coroutines besides the followed ones, so that a scan has two windows
MaxId == 67

\* const MAX_LEN: usize = 64 in CoMap::cancel_all
MAX_LEN == 64

Slots == 1..MaxChildren

Min(a, b) == IF a < b THEN a ELSE b
Max(a, b) == IF a > b THEN a ELSE b

VARIABLES
    id,           \* Manager.id, the AtomicUsize counter
    co_map,       \* CoMap.map: id -> raw CoHandle (the slot of the coroutine)
    addPc,        \* the parent inside add / add_unsafe: "idle", "add", "add_unsafe"
    addId,        \* local `id` of the add in progress
    addCo,        \* local `co` of the add in progress (slot of the new coroutine)
    pc,           \* per sub coroutine: "none","spawned","running","teardown","removed","done"
    body,         \* per sub coroutine: "loop" (sleeps forever) or "return"
    subId,        \* SubCo.id of the sub coroutine
    cancelFlag,   \* the scheduler's cancel flag of the coroutine
    unwinding,    \* the sub coroutine is unwinding from a Cancel panic
    held,         \* SubCo::drop: the raw CoHandle remove returned (0: none)
    strong,       \* strong count of the Arc<JoinHandle> behind the CoHandle (0: not allocated / freed)
    cancelReq,    \* number of cancel() calls cancel_all issued against the handle
    removed,      \* number of times remove returned the handle
    joined,       \* number of times CoHandle::join ran on the handle
    inserted,     \* number of times CoMap::insert stored the handle
    mgrPc,        \* Manager: "alive","loop","range","cancel","check","wait","dropped"
    panicking,    \* std::thread::panicking() of the task that drops the Manager
    start, end,   \* locals of cancel_all
    ids,          \* the filled part of the result buffer of cancel_all: <<id, raw>> pairs
    liveAtScan,   \* ids present in the map when cancel_all was entered
    scanned,      \* the windows <<start, end>> cancel_all has passed to map.range
    uaf,          \* cancel_all dereferenced a handle whose Arc was already freed
    crashed       \* the process died of that dereference

vars == <<id, co_map, addPc, addId, addCo, pc, body, subId, cancelFlag, unwinding, held,
          strong, cancelReq, removed, joined, inserted, mgrPc, panicking, start, end, ids,
          liveAtScan, scanned, uaf, crashed>>

childVars == <<pc, body, subId, cancelFlag, unwinding, held>>
histVars == <<cancelReq, removed, joined, inserted>>
addVars == <<addPc, addId, addCo>>
mgrVars == <<mgrPc, panicking, start, end, ids, liveAtScan, scanned>>

\* Manager::new(): counter 0, empty map, no sub coroutine yet
Init ==
    /\ id = 0
    /\ co_map = << >>
    /\ addPc = "idle" /\ addId = 0 /\ addCo = 0
    /\ pc = [s \in Slots |-> "none"]
    /\ body = [s \in Slots |-> "loop"]
    /\ subId = [s \in Slots |-> 0]
    /\ cancelFlag = [s \in Slots |-> FALSE]
    /\ unwinding = [s \in Slots |-> FALSE]
    /\ held = [s \in Slots |-> 0]
    /\ strong = [s \in Slots |-> 0]
    /\ cancelReq = [s \in Slots |-> 0]
    /\ removed = [s \in Slots |-> 0]
    /\ joined = [s \in Slots |-> 0]
    /\ inserted = [s \in Slots |-> 0]
    /\ mgrPc = "alive" /\ panicking = FALSE
    /\ start = 0 /\ end = 0 /\ ids = << >>
    /\ liveAtScan = {}
    /\ scanned = << >>
    /\ uaf = FALSE /\ crashed = FALSE


\* ------------------------------------------------------------------ CoMap
\* CoMap::insert: a fresh Arc is made for the JoinHandle and stored under id
Insert(m, k, v) == [i \in DOMAIN m \cup {k} |-> IF i = k THEN v ELSE m[i]]

\* CoMap::remove: the entry, if any, leaves the map
Remove(m, k) == [i \in DOMAIN m \ {k} |-> m[i]]

\* CoMap::is_empty
is_empty(m) == DOMAIN m = {}

\* the keys of m inside [s, e) in ascending order, as <<key, raw value>> pairs
RECURSIVE Ascending(_, _)
Ascending(m, keys) ==
    IF keys = {} THEN << >>
    ELSE LET k == CHOOSE x \in keys : \A y \in keys : x <= y
         IN  <<(<<k, m[k]>>)>> \o Ascending(m, keys \ {k})

\* Range with the bug of a scan that leaves out the key equal to start
Range_OpenStart(m, s, e) ==
    LET found == Ascending(m, {k \in DOMAIN m : s < k /\ k < e})
    IN  SubSeq(found, 1, Min(Len(found), MAX_LEN))

\* map.range(&start, &end, &mut ids, &guard): at most MAX_LEN (the buffer's
\* length) entries with start <= key < end
Range(m, s, e) ==
    LET found == Ascending(m, {k \in DOMAIN m : s <= k /\ k < e})
    IN  SubSeq(found, 1, Min(Len(found), MAX_LEN))

\* WindowStart with the bug of a window one id wider than the buffer
WindowStart_Wide(e) == Max(e, MAX_LEN + 1) - (MAX_LEN + 1)

\* WindowStart with the bug of a window one id short at its lower end
WindowStart_OneShort(e) == Max(e, MAX_LEN) - MAX_LEN + 1

\* let mut start = end.max(MAX_LEN) - MAX_LEN
WindowStart(e) == Max(e, MAX_LEN) - MAX_LEN

\* NextEnd with the bug of a step one id longer than the window
NextEnd_LongStep(e) == e - Min(e, MAX_LEN + 1)

\* end -= end.min(MAX_LEN)
NextEnd(e) == e - Min(e, MAX_LEN)

\* ------------------------------------------------------------- Manager::add
FreeSlot == CHOOSE s \in Slots : pc[s] = "none" /\ \A t \in Slots : pc[t] = "none" => s <= t

\* Spawn with the bug of a counter that is read but not advanced
Spawn_NoIncrement(kind, b) ==
    /\ ~crashed
    /\ mgrPc = "alive" /\ addPc = "idle"
    /\ id < MaxId
    /\ \E s \in Slots : pc[s] = "none"
    /\ LET s == FreeSlot IN
        /\ addId' = id
        /\ id' = id
        /\ addCo' = s
        /\ addPc' = kind
        /\ pc' = [pc EXCEPT ![s] = "spawned"]
        /\ body' = [body EXCEPT ![s] = b]
        /\ subId' = [subId EXCEPT ![s] = id]
    /\ UNCHANGED <<co_map, cancelFlag, unwinding, held, strong, histVars, mgrVars, uaf, crashed>>

\* fetch_add, SubCo { id, co_map }, go!(move || f(sub)): the new coroutine is
\* handed to the scheduler and may run before the insert below
Spawn(kind, b) ==
    /\ ~crashed
    /\ mgrPc = "alive" /\ addPc = "idle"
    /\ id < MaxId
    /\ \E s \in Slots : pc[s] = "none"
    /\ LET s == FreeSlot IN
        /\ addId' = id
        /\ id' = id + 1
        /\ addCo' = s
        /\ addPc' = kind
        /\ pc' = [pc EXCEPT ![s] = "spawned"]
        /\ body' = [body EXCEPT ![s] = b]
        /\ subId' = [subId EXCEPT ![s] = id]
    /\ UNCHANGED <<co_map, cancelFlag, unwinding, held, strong, histVars, mgrVars, uaf, crashed>>

add(b) == Spawn("add", b)

add_unsafe(b) == Spawn("add_unsafe", b)

\* AddInsert with the bug of an add that returns without the insert
AddInsert_NoInsert ==
    /\ ~crashed
    /\ addPc # "idle"
    /\ addPc' = "idle"
    /\ UNCHANGED <<id, co_map, addId, addCo, childVars, strong, histVars, mgrVars, uaf, crashed>>

\* self.co_map.insert(id, co), the last statement of add and add_unsafe
AddInsert ==
    /\ ~crashed
    /\ addPc # "idle"
    /\ co_map' = Insert(co_map, addId, addCo)
    /\ strong' = [strong EXCEPT ![addCo] = 1]
    /\ inserted' = [inserted EXCEPT ![addCo] = @ + 1]
    /\ addPc' = "idle"
    /\ UNCHANGED <<id, addId, addCo, childVars, cancelReq, removed, joined, mgrVars, uaf, crashed>>

\* MAX_LEN calls of add, each followed by its sub coroutine returning and
\* running its SubCo drop (remove, join) before the next call: the counter
\* moves on by MAX_LEN and the map is as it was
AddFinished ==
    /\ ~crashed
    /\ mgrPc = "alive" /\ addPc = "idle"
    /\ id + MAX_LEN <= MaxId
    /\ id' = id + MAX_LEN
    /\ UNCHANGED <<co_map, addVars, childVars, strong, histVars, mgrVars, uaf, crashed>>

\* ------------------------------------------------------- the sub coroutine
\* the scheduler starts running the coroutine
Run(s) ==
    /\ ~crashed
    /\ pc[s] = "spawned"
    /\ pc' = [pc EXCEPT ![s] = "running"]
    /\ UNCHANGED <<id, co_map, addVars, body, subId, cancelFlag, unwinding, held, strong,
                   histVars, mgrVars, uaf, crashed>>

\* Checkpoint with the bug of a cancel that tears down a coroutine that has
\* not started to run
Checkpoint_Unstarted(s) ==
    /\ ~crashed
    /\ pc[s] \in {"spawned", "running"}
    /\ cancelFlag[s]
    /\ pc' = [pc EXCEPT ![s] = "teardown"]
    /\ unwinding' = [unwinding EXCEPT ![s] = TRUE]
    /\ UNCHANGED <<id, co_map, addVars, body, subId, cancelFlag, held, strong,
                   histVars, mgrVars, uaf, crashed>>

\* coroutine::sleep: a cancelled coroutine unwinds at this checkpoint and its
\* SubCo is dropped by the unwinding
Checkpoint(s) ==
    /\ ~crashed
    /\ pc[s] = "running"
    /\ cancelFlag[s]
    /\ pc' = [pc EXCEPT ![s] = "teardown"]
    /\ unwinding' = [unwinding EXCEPT ![s] = TRUE]
    /\ UNCHANGED <<id, co_map, addVars, body, subId, cancelFlag, held, strong,
                   histVars, mgrVars, uaf, crashed>>

\* the closure returns and its SubCo argument is dropped
Return(s) ==
    /\ ~crashed
    /\ pc[s] = "running"
    /\ body[s] = "return"
    /\ pc' = [pc EXCEPT ![s] = "teardown"]
    /\ UNCHANGED <<id, co_map, addVars, body, subId, cancelFlag, unwinding, held, strong,
                   histVars, mgrVars, uaf, crashed>>

\* SubCoRemove with the bug of an unwrap of what remove returns: a missing id
\* panics inside the drop
SubCoRemove_Unwrap(s) ==
    /\ ~crashed
    /\ pc[s] = "teardown"
    /\ IF subId[s] \in DOMAIN co_map
       THEN /\ co_map' = Remove(co_map, subId[s])
            /\ held' = [held EXCEPT ![s] = co_map[subId[s]]]
            /\ removed' = [removed EXCEPT ![co_map[subId[s]]] = @ + 1]
            /\ pc' = [pc EXCEPT ![s] = "removed"]
            /\ UNCHANGED crashed
       ELSE /\ crashed' = TRUE
            /\ pc' = [pc EXCEPT ![s] = "done"]
            /\ UNCHANGED <<co_map, held, removed>>
    /\ UNCHANGED <<id, addVars, body, subId, cancelFlag, unwinding, strong,
                   cancelReq, joined, inserted, mgrVars, uaf>>

\* SubCo::drop, `if let Some(co) = self.co_map.remove(&self.id)`
SubCoRemove(s) ==
    /\ ~crashed
    /\ pc[s] = "teardown"
    /\ IF subId[s] \in DOMAIN co_map
       THEN /\ co_map' = Remove(co_map, subId[s])
            /\ held' = [held EXCEPT ![s] = co_map[subId[s]]]
            /\ removed' = [removed EXCEPT ![co_map[subId[s]]] = @ + 1]
            /\ pc' = [pc EXCEPT ![s] = "removed"]
       ELSE /\ pc' = [pc EXCEPT ![s] = "done"]
            /\ UNCHANGED <<co_map, held, removed>>
    /\ UNCHANGED <<id, addVars, body, subId, cancelFlag, unwinding, strong,
                   cancelReq, joined, inserted, mgrVars, uaf, crashed>>

\* SubCo::drop, `co.join()`: Arc::into_inner takes the JoinHandle out of the
\* Arc and frees the Arc, then JoinHandle::join is called.  The call is made
\* by the coroutine the handle belongs to; what the scheduler does inside it
\* is not part of this crate, the model records that the call was made.
SubCoJoin(s) ==
    /\ ~crashed
    /\ pc[s] = "removed"
    /\ strong' = [strong EXCEPT ![held[s]] = @ - 1]
    /\ joined' = [joined EXCEPT ![held[s]] = @ + 1]
    /\ pc' = [pc EXCEPT ![s] = "done"]
    /\ UNCHANGED <<id, co_map, addVars, body, subId, cancelFlag, unwinding, held,
                   cancelReq, removed, inserted, mgrVars, uaf, crashed>>

\* ------------------------------------------------------- Drop for Manager
\* drop is entered with the counter's value as max; the task that owns the
\* Manager is either leaving its scope or unwinding from a Cancel panic.
\* cancel_all: let mut end = max; let mut start = end.max(MAX_LEN) - MAX_LEN
DropManager(p) ==
    /\ ~crashed
    /\ mgrPc = "alive" /\ addPc = "idle"
    /\ panicking' = p
    /\ end' = id
    /\ start' = WindowStart(id)
    /\ ids' = << >>
    /\ liveAtScan' = DOMAIN co_map
    /\ scanned' = << >>
    /\ mgrPc' = "loop"
    /\ UNCHANGED <<id, co_map, addVars, childVars, strong, histVars, uaf, crashed>>

\* cancel_all: `while end > 0`, pin, `if self.map.is_empty(&guard) { return; }`
CancelLoop ==
    /\ ~crashed
    /\ mgrPc = "loop"
    /\ mgrPc' = IF end > 0 /\ ~is_empty(co_map) THEN "range" ELSE "check"
    /\ UNCHANGED <<id, co_map, addVars, childVars, strong, histVars, panicking,
                   start, end, ids, liveAtScan, scanned, uaf, crashed>>

\* cancel_all: `let len = self.map.range(&start, &end, &mut ids, &guard)`
CancelRange ==
    /\ ~crashed
    /\ mgrPc = "range"
    /\ ids' = Range(co_map, start, end)
    /\ scanned' = Append(scanned, <<start, end>>)
    /\ mgrPc' = "cancel"
    /\ UNCHANGED <<id, co_map, addVars, childVars, strong, histVars, panicking,
                   start, end, liveAtScan, uaf, crashed>>

\* CancelOne with the bug of a cancel_all that also takes the entry it has
\* cancelled out of the map
CancelOne_Removes ==
    /\ ~crashed
    /\ mgrPc = "cancel"
    /\ ids # << >>
    /\ LET h == Head(ids)[2] IN
        /\ cancelReq' = [cancelReq EXCEPT ![h] = @ + 1]
        /\ IF strong[h] > 0
           THEN /\ cancelFlag' = [cancelFlag EXCEPT ![h] = TRUE]
                /\ UNCHANGED <<uaf, crashed>>
           ELSE /\ uaf' = TRUE
                /\ \/ UNCHANGED <<cancelFlag, crashed>>
                   \/ \E t \in Slots :
                        /\ pc[t] # "none"
                        /\ cancelFlag' = [cancelFlag EXCEPT ![t] = TRUE]
                        /\ UNCHANGED crashed
                   \/ crashed' = TRUE /\ UNCHANGED cancelFlag
    /\ co_map' = Remove(co_map, Head(ids)[1])
    /\ ids' = Tail(ids)
    /\ UNCHANGED <<id, addVars, pc, body, subId, unwinding, held, strong,
                   removed, joined, inserted, mgrPc, panicking, start, end, liveAtScan, scanned>>

\* CancelOne with the bug of a handle that is cloned from the raw value and
\* then forgotten: every cancel leaks one strong reference
CancelOne_Clones ==
    /\ ~crashed
    /\ mgrPc = "cancel"
    /\ ids # << >>
    /\ LET h == Head(ids)[2] IN
        /\ cancelReq' = [cancelReq EXCEPT ![h] = @ + 1]
        /\ IF strong[h] > 0
           THEN /\ cancelFlag' = [cancelFlag EXCEPT ![h] = TRUE]
                /\ strong' = [strong EXCEPT ![h] = @ + 1]
                /\ UNCHANGED <<uaf, crashed>>
           ELSE /\ uaf' = TRUE
                /\ UNCHANGED strong
                /\ \/ UNCHANGED <<cancelFlag, crashed>>
                   \/ \E t \in Slots :
                        /\ pc[t] # "none"
                        /\ cancelFlag' = [cancelFlag EXCEPT ![t] = TRUE]
                        /\ UNCHANGED crashed
                   \/ crashed' = TRUE /\ UNCHANGED cancelFlag
    /\ ids' = Tail(ids)
    /\ UNCHANGED <<id, co_map, addVars, pc, body, subId, unwinding, held,
                   removed, joined, inserted, mgrPc, panicking, start, end, liveAtScan, scanned>>

\* cancel_all, one turn of `for id in ids.iter().take(len)`:
\* CoHandle::from(id.1), co.co.coroutine().cancel(), forget(co).
\* The Arc is rebuilt from the raw value without a new strong reference; when
\* its owner has already freed it the read is of freed memory, and what the
\* call then does is open: nothing, a cancel of some coroutine, or a crash.
CancelOne ==
    /\ ~crashed
    /\ mgrPc = "cancel"
    /\ ids # << >>
    /\ LET h == Head(ids)[2] IN
        /\ cancelReq' = [cancelReq EXCEPT ![h] = @ + 1]
        /\ IF strong[h] > 0
           THEN /\ cancelFlag' = [cancelFlag EXCEPT ![h] = TRUE]
                /\ UNCHANGED <<uaf, crashed>>
           ELSE /\ uaf' = TRUE
                /\ \/ UNCHANGED <<cancelFlag, crashed>>
                   \/ \E t \in Slots :
                        /\ pc[t] # "none"
                        /\ cancelFlag' = [cancelFlag EXCEPT ![t] = TRUE]
                        /\ UNCHANGED crashed
                   \/ crashed' = TRUE /\ UNCHANGED cancelFlag
    /\ ids' = Tail(ids)
    /\ UNCHANGED <<id, co_map, addVars, pc, body, subId, unwinding, held, strong,
                   removed, joined, inserted, mgrPc, panicking, start, end, liveAtScan, scanned>>

\* cancel_all, after the for loop: `end -= end.min(MAX_LEN)`,
\* `start = end.max(MAX_LEN) - MAX_LEN`
CancelNext ==
    /\ ~crashed
    /\ mgrPc = "cancel"
    /\ ids = << >>
    /\ end' = NextEnd(end)
    /\ start' = WindowStart(NextEnd(end))
    /\ mgrPc' = "loop"
    /\ UNCHANGED <<id, co_map, addVars, childVars, strong, histVars, panicking,
                   ids, liveAtScan, scanned, uaf, crashed>>

\* DropCheck with the bug of the test inverted: waits only when panicking
DropCheck_Inverted ==
    /\ ~crashed
    /\ mgrPc = "check"
    /\ mgrPc' = IF panicking THEN "wait" ELSE "dropped"
    /\ UNCHANGED <<id, co_map, addVars, childVars, strong, histVars, panicking,
                   start, end, ids, liveAtScan, scanned, uaf, crashed>>

\* Manager::drop: `if !std::thread::panicking()`
DropCheck ==
    /\ ~crashed
    /\ mgrPc = "check"
    /\ mgrPc' = IF panicking THEN "dropped" ELSE "wait"
    /\ UNCHANGED <<id, co_map, addVars, childVars, strong, histVars, panicking,
                   start, end, ids, liveAtScan, scanned, uaf, crashed>>

\* DropWait with the bug of a single yield instead of the loop
DropWait_YieldOnce ==
    /\ ~crashed
    /\ mgrPc = "wait"
    /\ mgrPc' = "dropped"
    /\ UNCHANGED <<id, co_map, addVars, childVars, strong, histVars, panicking,
                   start, end, ids, liveAtScan, scanned, uaf, crashed>>

\* Manager::drop: `while !self.co_map.is_empty() { coroutine::yield_now(); }`
DropWait ==
    /\ ~crashed
    /\ mgrPc = "wait"
    /\ mgrPc' = IF is_empty(co_map) THEN "dropped" ELSE "wait"
    /\ UNCHANGED <<id, co_map, addVars, childVars, strong, histVars, panicking,
                   start, end, ids, liveAtScan, scanned, uaf, crashed>>

\* -------------------------------------------------------- specifications
Parent ==
    \/ \E b \in {"loop", "return"} : add(b)
    \/ \E b \in {"loop", "return"} : add_unsafe(b)
    \/ AddInsert
    \/ AddFinished
    \/ \E p \in BOOLEAN : DropManager(p)

Teardown ==
    \/ CancelLoop
    \/ CancelRange
    \/ CancelOne
    \/ CancelNext
    \/ DropCheck
    \/ DropWait

Child(s) ==
    \/ Run(s)
    \/ Checkpoint(s)
    \/ Return(s)
    \/ SubCoRemove(s)
    \/ SubCoJoin(s)

Next ==
    \/ Parent
    \/ Teardown
    \/ \E s \in Slots : Child(s)

Spec == Init /\ [][Next]_vars

\* the scheduler keeps running every ready coroutine, and a task that is
\* inside add or inside Manager::drop keeps running; whether the parent
\* spawns again or drops the Manager at all is up to the parent
FairSpec ==
    /\ Spec
    /\ WF_vars(AddInsert)
    /\ WF_vars(Teardown)
    /\ \A s \in Slots : WF_vars(Child(s))

\* ------------------------------------------- cancel_all for every max
\* largest value of the counter the scan is started with
MaxScan == 200

\* The Manager after its first add (id 0, inserted, the sub coroutine not yet
\* run) and after further spawns whose sub coroutines have all finished and
\* removed themselves, so that the counter stands at any n >= 1; or the
\* fresh Manager with the counter at 0.
ScanInit ==
    /\ id \in 0..MaxScan
    /\ addPc = "idle" /\ addId = 0 /\ addCo = 0
    /\ subId = [s \in Slots |-> 0]
    /\ cancelFlag = [s \in Slots |-> FALSE]
    /\ unwinding = [s \in Slots |-> FALSE]
    /\ held = [s \in Slots |-> 0]
    /\ cancelReq = [s \in Slots |-> 0]
    /\ removed = [s \in Slots |-> 0]
    /\ joined = [s \in Slots |-> 0]
    /\ mgrPc = "alive" /\ panicking = FALSE
    /\ start = 0 /\ end = 0 /\ ids = << >>
    /\ liveAtScan = {} /\ scanned = << >>
    /\ uaf = FALSE /\ crashed = FALSE
    /\ IF id = 0
       THEN /\ co_map = << >>
            /\ pc = [s \in Slots |-> "none"]
            /\ body = [s \in Slots |-> "loop"]
            /\ strong = [s \in Slots |-> 0]
            /\ inserted = [s \in Slots |-> 0]
       ELSE /\ co_map = Insert(<< >>, 0, 1)
            /\ pc = [s \in Slots |-> IF s = 1 THEN "spawned" ELSE "none"]
            /\ \E b \in {"loop", "return"} : body = [s \in Slots |-> IF s = 1 THEN b ELSE "loop"]
            /\ strong = [s \in Slots |-> IF s = 1 THEN 1 ELSE 0]
            /\ inserted = [s \in Slots |-> IF s = 1 THEN 1 ELSE 0]

\* from there the Manager is dropped while the sub coroutine runs
ScanNext ==
    \/ \E p \in BOOLEAN : DropManager(p)
    \/ Teardown
    \/ \E s \in Slots : Child(s)

ScanSpec == ScanInit /\ [][ScanNext]_vars

\* ------------------------------------------------------------------ claims
\* cancel_all has returned (Manager::drop is past line 194)
CancelAllReturned == mgrPc \in {"check", "wait", "dropped"}

\* the sub coroutine exists and its SubCo drop has not yet run remove
NotYetRemoved(s) == pc[s] \in {"spawned", "running", "teardown"}

Spawned(s) == pc[s] # "none"

C2_EveryHandleJoinedOnce ==
    (mgrPc = "dropped" /\ ~panicking) =>
        /\ is_empty(co_map)
        /\ \A s \in Slots : Spawned(s) => joined[s] = 1

\* C2 amended: when Manager::drop has returned on the non-unwinding path the
\* map is empty, every inserted handle was removed exactly once, by its owner,
\* and was joined at most once: the owner has joined it or is about to.
C2_EveryHandleRemovedOnce ==
    (mgrPc = "dropped" /\ ~panicking) =>
        /\ is_empty(co_map)
        /\ \A s \in Slots : Spawned(s) =>
            /\ removed[s] = 1
            /\ held[s] = s
            /\ \/ joined[s] = 1 /\ pc[s] = "done"
               \/ joined[s] = 0 /\ pc[s] = "removed"

\* the drop has returned normally while one owner has joined its handle and
\* another holds its handle with the join still to come
C2_Witness ==
    /\ mgrPc = "dropped" /\ ~panicking
    /\ \E s, t \in Slots :
        /\ joined[s] = 1 /\ pc[s] = "done"
        /\ joined[t] = 0 /\ pc[t] = "removed"

AllLoop == \A s \in Slots : Spawned(s) => body[s] = "loop"

\* C3: when every sub coroutine loops on a checkpoint and the Manager is
\* dropped on the non-unwinding path, then eventually every sub coroutine has
\* unwound and removed its entry, the map is empty and the drop has returned.
C3_CancellationTakesEffect ==
    (mgrPc # "alive" /\ ~panicking /\ AllLoop) ~>
        /\ mgrPc = "dropped"
        /\ is_empty(co_map)
        /\ \A s \in Slots : Spawned(s) => unwinding[s] /\ removed[s] = 1

\* the drop has returned normally after looping sub coroutines of two
\* different windows have unwound and removed themselves
C3_Witness ==
    /\ mgrPc = "dropped" /\ ~panicking /\ AllLoop
    /\ is_empty(co_map)
    /\ \E s, t \in Slots :
        /\ subId[t] >= subId[s] + MAX_LEN
        /\ unwinding[s] /\ unwinding[t]
        /\ removed[s] = 1 /\ removed[t] = 1

\* C4: no SubCo drop runs remove(id) before insert(id, handle) has taken
\* effect: a remove by the owner of an id always finds the handle.
C4_InsertBeforeRemove ==
    \A s \in Slots : pc[s] \in {"removed", "done"} => removed[s] >= 1

\* C5: a handle that cancel_all took from a range scan is still allocated
\* when cancel_all calls cancel() on it.
C5_HandleAllocatedAtCancel ==
    (mgrPc = "cancel" /\ ids # << >>) => strong[Head(ids)[2]] > 0

\* C6: a sub coroutine that returned on its own while the Manager is alive
\* has left no entry in the map once its teardown and its add are over, so
\* the map goes back to empty without the Manager.
C6_ReturnedChildLeavesNoEntry ==
    \A s \in Slots :
        (mgrPc = "alive" /\ addPc = "idle" /\ pc[s] = "done" /\ ~unwinding[s])
            => subId[s] \notin DOMAIN co_map

\* C7: a Manager dropped while unwinding never waits for the map to empty,
\* and until its drop has returned the drop always has a next step to take.
C7_UnwindingDropReturns ==
    (mgrPc \notin {"alive", "dropped"} /\ panicking) =>
        /\ mgrPc # "wait"
        /\ ENABLED Teardown

\* C8: a SubCo dropped while its coroutine is unwinding does not join the
\* handle it removed.
C8_NoJoinWhileUnwinding ==
    \A s \in Slots : (unwinding[s] /\ pc[s] = "done" /\ held[s] # 0) => joined[held[s]] = 0

\* C9 as stated: whenever Manager::drop has returned, on either path, the map
\* has no entry.
C9_NoEntryAfterDrop == mgrPc = "dropped" => is_empty(co_map)

\* C9 amended: whenever Manager::drop has returned on the non-unwinding path
\* the map has no entry; on the unwinding path every entry still in the map
\* has been sent a cancel request.
C9_NoEntryAfterNormalDrop ==
    mgrPc = "dropped" =>
        IF panicking
        THEN \A k \in DOMAIN co_map : cancelReq[co_map[k]] >= 1
        ELSE is_empty(co_map)

\* the drop has returned normally with the counter beyond one window and the
\* entries of two sub coroutines gone
C9_Witness ==
    /\ mgrPc = "dropped" /\ ~panicking /\ is_empty(co_map)
    /\ id > MAX_LEN
    /\ \A s \in Slots : removed[s] = 1

Owner(k) == CHOOSE s \in Slots : Spawned(s) /\ subId[s] = k

\* C10 as stated: cancel_all issues a cancel against every id that was in the
\* map when it was entered.
C10_VisitsAllLiveAtStart ==
    CancelAllReturned => \A k \in liveAtScan : cancelReq[Owner(k)] >= 1

\* C10 amended: cancel_all issues a cancel against every id that was in the
\* map when it was entered and is still in the map when it returns; an id
\* whose owner removed it before its window was scanned gets none.
C10_VisitsAllStillLive ==
    CancelAllReturned =>
        \A k \in liveAtScan : k \in DOMAIN co_map => cancelReq[Owner(k)] >= 1

\* cancel_all has returned after more than one window, with one entry of the
\* start cancelled and still present and another removed by its owner unvisited
C10_Witness ==
    /\ mgrPc = "check"
    /\ \E k, j \in liveAtScan :
        /\ k \in DOMAIN co_map /\ cancelReq[Owner(k)] = 1
        /\ j \notin DOMAIN co_map /\ cancelReq[Owner(j)] = 0
        /\ (k >= j + MAX_LEN \/ j >= k + MAX_LEN)

\* C11: the ids one Manager allocates are strictly increasing in allocation
\* order and all below the counter, the insert of an add in progress never
\* targets an id that is in the map, and every entry of the map belongs to
\* the one sub coroutine that was given its id.
C11_IdsUnique ==
    /\ \A s, t \in Slots : (Spawned(s) /\ Spawned(t) /\ s < t) => subId[s] < subId[t]
    /\ \A s \in Slots : Spawned(s) => subId[s] < id
    /\ addPc # "idle" => (addId \notin DOMAIN co_map /\ addId < id)
    /\ \A k \in DOMAIN co_map : Spawned(co_map[k]) /\ subId[co_map[k]] = k

\* a second add is about to insert while the entry of the first is in the
\* map and a run of finished spawns lies between the two ids
C11_Witness ==
    /\ addPc # "idle"
    /\ DOMAIN co_map # {}
    /\ \E k \in DOMAIN co_map : addId >= k + MAX_LEN

\* the add that spawned s has not yet reached its insert
AddPending(s) == addPc # "idle" /\ addCo = s

\* C12: the handle of every spawned task is inserted exactly once (not before
\* the insert of its add, once from then on), remove returns it at most once,
\* at most one SubCo drop ever holds it and it is joined at most once, only
\* after a remove returned it.
C12_InsertOnceRemoveOnce ==
    \A s \in Slots :
        /\ Spawned(s) => inserted[s] = (IF AddPending(s) THEN 0 ELSE 1)
        /\ ~Spawned(s) => inserted[s] = 0
        /\ removed[s] <= 1
        /\ joined[s] <= removed[s]
        /\ Cardinality({t \in Slots : held[t] = s}) = removed[s]

\* one handle was inserted, removed and joined once; another was inserted
\* once after its owner's remove had found nothing, and was never removed
C12_Witness ==
    \E s, t \in Slots :
        /\ inserted[s] = 1 /\ removed[s] = 1 /\ joined[s] = 1
        /\ inserted[t] = 1 /\ removed[t] = 0 /\ pc[t] = "done" /\ held[t] = 0

\* a step of Manager::drop, cancel_all included
DropStep == (\E p \in BOOLEAN : DropManager(p)) \/ Teardown

\* C13: no step of Manager::drop or cancel_all changes the set of ids in the
\* map or joins a handle; an entry leaves the map only in the remove of the
\* SubCo drop of the task that owns the id, and a handle is joined only by
\* that same task.
C13_OnlyOwnerRemovesAndJoins ==
    [][ /\ DropStep => (DOMAIN co_map' = DOMAIN co_map /\ joined' = joined /\ strong' = strong)
        /\ \A k \in DOMAIN co_map \ DOMAIN co_map' :
              LET s == co_map[k] IN
                subId[s] = k /\ pc[s] = "teardown" /\ pc'[s] = "removed" /\ held'[s] = s
        /\ \A h \in Slots : joined'[h] # joined[h] =>
              (pc[h] = "removed" /\ held[h] = h /\ pc'[h] = "done") ]_vars

\* cancel_all has cancelled an entry that is still in the map while another
\* entry has been removed and joined by its owner
C13_Witness ==
    /\ mgrPc \in {"cancel", "check", "wait"}
    /\ \E s, t \in Slots :
        /\ subId[s] \in DOMAIN co_map /\ cancelReq[s] = 1
        /\ cancelReq[t] = 1 /\ unwinding[t] /\ joined[t] = 1 /\ subId[t] \notin DOMAIN co_map

\* every sub coroutine that was spawned has finished its SubCo drop
AllCoroutinesDone == \A s \in Slots : pc[s] \in {"none", "done"}

\* C14: an entry that insert left in the map after its sub coroutine had
\* already finished is gone once all coroutines are done, so a Manager::drop
\* on the non-unwinding path that waits in the yield loop then finds the map
\* empty and finishes.
C14_LateEntryIsDropped ==
    (mgrPc = "wait" /\ AllCoroutinesDone) => is_empty(co_map)

\* the moves of the per-task state machine: Spawned, Running, Completed or
\* Cancelled ("teardown"), Deregistered ("removed"), Joined ("done" with the
\* handle held); a task whose remove found nothing ends without the last two
Lifecycle ==
    { <<"none", "spawned">>, <<"spawned", "running">>, <<"running", "teardown">>,
      <<"teardown", "removed">>, <<"removed", "done">>, <<"teardown", "done">> }

\* C15: a task changes its state only along the lifecycle; it is cancelled
\* only with its cancel flag set; it is deregistered (its remove returns the
\* handle) only from the state after its body returned or unwound, and only
\* once; its handle is joined only after that remove, with its id out of the
\* map; a task that ends without deregistering has joined nothing.
C15_LifecycleOrder ==
    [][ \A s \in Slots :
          /\ pc'[s] # pc[s] => <<pc[s], pc'[s]>> \in Lifecycle
          /\ (pc[s] = "running" /\ pc'[s] = "teardown" /\ unwinding'[s]) => cancelFlag[s]
          /\ removed'[s] # removed[s] =>
                (pc[s] = "teardown" /\ pc'[s] = "removed" /\ removed[s] = 0)
          /\ joined'[s] # joined[s] =>
                (pc[s] = "removed" /\ removed[s] = 1 /\ subId[s] \notin DOMAIN co_map)
          /\ (pc[s] = "teardown" /\ pc'[s] = "done") =>
                (removed'[s] = 0 /\ joined'[s] = 0 /\ held'[s] = 0) ]_vars

\* one task was cancelled, deregistered and joined; another returned on its
\* own and is deregistered with its join still to come
C15_Witness ==
    \E s, t \in Slots :
        /\ pc[s] = "done" /\ unwinding[s] /\ removed[s] = 1 /\ joined[s] = 1
        /\ pc[t] = "removed" /\ ~unwinding[t] /\ removed[t] = 1 /\ joined[t] = 0

\* C16: after a Manager was dropped on the unwinding path the map stays in
\* use by the sub coroutines, each removes its own id when it unwinds, and
\* the map ends up empty: once every coroutine is done no entry is left.
C16_DrainsAfterUnwindingDrop ==
    (mgrPc = "dropped" /\ panicking /\ AllCoroutinesDone) => is_empty(co_map)

\* C17: a SubCo drop whose id is not in the map gets no handle from remove,
\* leaves the map as it is, joins nothing, frees nothing, fails in nothing
\* and is over.
C17_RemoveOfMissingId ==
    [][ \A s \in Slots :
          (pc[s] = "teardown" /\ subId[s] \notin DOMAIN co_map /\ pc'[s] # pc[s]) =>
              /\ co_map' = Remove(co_map, subId[s])
              /\ co_map' = co_map
              /\ held'[s] = 0
              /\ pc'[s] = "done"
              /\ joined' = joined /\ removed' = removed /\ strong' = strong
              /\ ~crashed' ]_vars

\* a SubCo drop found its id missing while the entry of another task was in
\* the map, and that entry is still there
C17_Witness ==
    \E s, t \in Slots :
        /\ pc[s] = "done" /\ held[s] = 0 /\ joined[s] = 0 /\ removed[s] = 0
        /\ s # t /\ subId[t] \in DOMAIN co_map /\ pc[t] = "running"
        /\ AddPending(s)

\* C18: the windows [start, end) that one cancel_all passes to map.range
\* begin at max, each is at most MAX_LEN ids wide and lies at or above 0, each
\* next one ends where the one before starts, so they are pairwise disjoint;
\* start and end never go below 0; a scan that runs to end = 0 has covered
\* exactly [0, max); and no handle gets more than one cancel from the scan.
C18_WindowsPartition ==
    LET n == Len(scanned) IN
    /\ 0 <= start /\ start <= end
    /\ \A i \in 1..n :
        /\ 0 <= scanned[i][1] /\ scanned[i][1] < scanned[i][2]
        /\ scanned[i][2] - scanned[i][1] <= MAX_LEN
    /\ n >= 1 => scanned[1][2] = id
    /\ \A i \in 1..(n - 1) : scanned[i + 1][2] = scanned[i][1]
    /\ \A i, j \in 1..n : i < j => scanned[j][2] <= scanned[i][1]
    /\ mgrPc = "cancel" => Len(ids) <= MAX_LEN
    /\ (CancelAllReturned /\ end = 0 /\ id > 0) => (n >= 1 /\ scanned[n][1] = 0)
    /\ \A h \in Slots : cancelReq[h] <= 1

\* a scan of four windows, the last one shorter than MAX_LEN, has run to its
\* end and has cancelled the entry of id 0 once
C18_Witness ==
    /\ CancelAllReturned /\ end = 0
    /\ Len(scanned) = 4
    /\ scanned[4][2] - scanned[4][1] < MAX_LEN
    /\ scanned[4][1] = 0
    /\ cancelReq[1] = 1

\* C19: a sub coroutine that holds the handle remove gave it and is about to
\* join it holds the only strong reference to the JoinHandle, so
\* Arc::into_inner returns Some and the expect in CoHandle::join does not
\* fail; cancel_all never changes a reference count, and no handle is joined
\* twice.
C19_JoinHoldsOnlyReference ==
    /\ \A s \in Slots :
        pc[s] = "removed" => (held[s] \in Slots /\ strong[held[s]] = 1)
    /\ \A h \in Slots : strong[h] <= 1 /\ joined[h] <= 1

\* the owner has taken its handle out of the map and is about to join it
\* while cancel_all has cancelled that handle once and is still scanning
C19_Witness ==
    \E s \in Slots :
        /\ pc[s] = "removed"
        /\ mgrPc = "cancel"
        /\ cancelReq[held[s]] = 1
        /\ strong[held[s]] = 1

====
